---- MODULE Spec2Model ----
(***************************************************************************)
(* Model of langroid's PostgresDB vector store                             *)
(* (src/langroid/vector_store/postgres.py) together with the document      *)
(* types of src/langroid/mytypes.py.                                       *)
(*                                                                         *)
(* The database is modelled by the SQL semantics of the statements the     *)
(* store issues: a table per collection with a unique primary key `id`,    *)
(* one named HNSW index per collection, plain INSERT, SELECT with          *)
(* WHERE / ORDER BY / LIMIT, DROP ... IF EXISTS, and the table locks a      *)
(* transaction holds until it ends.  One store handle issues its calls    *)
(* one after the other; every call is one step.  A call that waits for a  *)
(* lock its own open transaction holds never returns by itself: its       *)
(* outcome is "blocked", and the caller's interruption ends it.            *)
(***************************************************************************)
EXTENDS Integers, Sequences, FiniteSets, TLC

VARIABLES
    table_names,         \* inspector.get_table_names(): tables in the database
    rows,                \* rows[c]: the rows of table c, in storage order
    index,               \* index[c]: state of hnsw_index_<c>_embedding
    collection_name,     \* self.config.collection_name (= self.embeddings_table)
    last,                \* the last call: operation, arguments, outcome
    threads              \* threads[t]: the call thread t is in, step by step

vars == <<table_names, rows, index, collection_name, last, threads>>

----------------------------------------------------------------------------
(* Bounds of the model *)

\* rows held by the whole store
MaxRows == 2
\* documents in one add_documents call
MaxBatch == 1
\* largest k of a similarity query
MaxK == 2
\* ids in one get_documents_by_ids call
MaxIds == 2

\* Collection names are strings, modelled as sequences of characters so
\* that str.startswith is computed.
Names == { <<"t", "a">>, <<"p">> }
Prefixes == { <<>>, <<"t">>, <<"p", "q">> }

\* texts of similarity queries
Queries == { "near", "far" }

\* `where` arguments: Python None, and strings.
None == "<None>"
WhereStrings == { "", "{not json", "{}", "{\"tag\": \"x\"}", "{\"tag\": \"y\"}" }

\* A Document: content plus DocMetaData (id and one extra field, tag).
\* Ids are strings: <<"uuid", u>> is the canonical text of UUID u,
\* <<"UUID", u>> another accepted spelling of the same UUID (upper case),
\* <<"str", s>> a string that is no UUID.
Doc(c, i, t) == [content |-> c, metadata |-> [id |-> i, tag |-> t]]

\* The documents callers submit: two with the same UUID id and metadata
\* and different content, two with the same non-UUID id and different
\* metadata.
Documents ==
    { Doc("near", <<"uuid", "u1">>, "x"), Doc("far", <<"uuid", "u1">>, "x"),
      Doc("near", <<"str", "raw">>, "y"), Doc("far", <<"str", "raw">>, "x") }

SeqsUpTo(S, n) == UNION { [1..m -> S] : m \in 0..n }

----------------------------------------------------------------------------
(* Pure functions *)

\* Variant: only the lengths are compared.
startswith_length_only(s, p) == Len(p) <= Len(s)

\* str.startswith
startswith(s, p) == Len(p) <= Len(s) /\ SubSeq(s, 1, Len(p)) = p

\* uuid.UUID(id): parses both spellings, and the text of a name-based UUID
\* (which is canonical); str() gives the canonical text.
uuid_parses(id) == id[1] \in {"uuid", "UUID", "uuid5"}
uuid_str(id) == IF id[1] = "UUID" THEN <<"uuid", id[2]>> ELSE id

\* Variant: the hash is taken of the id alone.
uuid5_of_id(id, obj) == <<"uuid5", id>>

\* uuid.uuid5(NAMESPACE_DNS, f"{id}-{sha256(repr(obj))}"): a name-based
\* UUID, a function of the id and of the repr of the metadata object
\* (distinct names are taken to give distinct UUIDs).
uuid5(id, obj) == <<"uuid5", id, obj>>

\* Variant: the id is returned as given when it parses as a UUID.
_id_to_uuid_as_given(id, obj) ==
    IF uuid_parses(id) THEN id ELSE uuid5(id, obj)

_id_to_uuid(id, obj) ==
    IF uuid_parses(id) THEN uuid_str(id) ELSE uuid5(id, obj)

\* The injected embedding function.  All vectors have the same norm, 5.
embedding_fn(text) ==
    CASE text = "near" -> <<5, 0>>
      [] text = "mid"  -> <<4, 3>>
      [] text = "far"  -> <<0, 5>>

Dot(a, b) == a[1] * b[1] + a[2] * b[2]

\* pgvector cosine_distance, 1 - a.b/(|a||b|), scaled by |a||b|; the scale
\* is the same for all pairs because all vectors have the same norm.
cosine_distance(a, b) == Dot(a, a) - Dot(a, b)

\* 1 - cosine_distance, in the same scale
score(a, b) == Dot(a, a) - cosine_distance(a, b)

\* Variant: text that is no JSON is read as the empty object.
json_loads_lenient(s) ==
    CASE s = "{\"tag\": \"x\"}" -> [ok |-> TRUE, val |-> [tag |-> "x"]]
      [] s = "{\"tag\": \"y\"}" -> [ok |-> TRUE, val |-> [tag |-> "y"]]
      [] OTHER                  -> [ok |-> TRUE, val |-> <<>>]

\* json.loads on the `where` strings: ok = FALSE is JSONDecodeError.
json_loads(s) ==
    CASE s = "{}"               -> [ok |-> TRUE, val |-> <<>>]
      [] s = "{\"tag\": \"x\"}" -> [ok |-> TRUE, val |-> [tag |-> "x"]]
      [] s = "{\"tag\": \"y\"}" -> [ok |-> TRUE, val |-> [tag |-> "y"]]
      [] OTHER                  -> [ok |-> FALSE, val |-> <<>>]

\* Variant: the containment test accepts every row.
contains_anything(cmetadata, json) == TRUE

\* JSONB containment cmetadata @> json, for objects
contains(cmetadata, json) ==
    \A key \in DOMAIN json :
        key \in DOMAIN cmetadata /\ cmetadata[key] = json[key]

\* ORDER BY: the orderings of the row positions S by nondecreasing key[n];
\* rows with equal keys come in either order.
OrderBy(S, key) ==
    { p \in [1..Cardinality(S) -> S] :
        /\ \A i, j \in DOMAIN p : i # j => p[i] # p[j]
        /\ \A i, j \in DOMAIN p : i < j => key[p[i]] <= key[p[j]] }

\* Variant: the last k of the ordering instead of the first k.
Limit_from_end(p, k) ==
    SubSeq(p, (IF k < Len(p) THEN Len(p) - k ELSE 0) + 1, Len(p))

\* LIMIT k
Limit(p, k) == SubSeq(p, 1, IF k < Len(p) THEN k ELSE Len(p))

\* WHERE: the positions n of the rows of table r with match[n]
Where(r, match) == { n \in DOMAIN r : match[n] }

\* the positions, in increasing order (storage order)
RECURSIVE StorageOrder(_)
StorageOrder(S) ==
    IF S = {} THEN <<>>
    ELSE LET m == CHOOSE x \in S : \A y \in S : x <= y
         IN  <<m>> \o StorageOrder(S \ {m})

RECURSIVE CountRows(_, _)
CountRows(r, S) ==
    IF S = {} THEN 0
    ELSE LET c == CHOOSE x \in S : TRUE
         IN  Len(r[c]) + CountRows(r, S \ {c})

TotalRows == CountRows(rows, Names)

----------------------------------------------------------------------------
(* The database, as the store's statements act on it *)

DB == [table_names |-> table_names, rows |-> rows, index |-> index]

Done(db) == [err |-> "none", db |-> db]

\* DROP INDEX CONCURRENTLY IF EXISTS hnsw_index_<name>_embedding
drop_index(db, name) ==
    Done([db EXCEPT !.index = [db.index EXCEPT ![name] = "NO_INDEX"]])

\* table.drop(engine, checkfirst=True); DROP TABLE removes the indexes of
\* the table with it
drop_table(db, name) ==
    Done([db EXCEPT !.table_names = db.table_names \ {name},
                    !.rows = [db.rows EXCEPT ![name] = <<>>],
                    !.index = [db.index EXCEPT ![name] = "NO_INDEX"]])

\* Variant: DROP without IF EXISTS / checkfirst, which raises on an absent
\* table.
delete_collection_strict(db, name) ==
    IF name \notin db.table_names THEN [err |-> "ProgrammingError", db |-> db]
    ELSE drop_table(drop_index(db, name).db, name)

\* delete_collection: the index first, then the table.  A statement that
\* raises ends the call.
delete_collection(db, name) ==
    LET d1 == drop_index(db, name)
    IN  IF d1.err # "none" THEN d1 ELSE drop_table(d1.db, name)

\* Variant: the table is created anew, without the rows it held.
create_all_anew(db, name) ==
    [db EXCEPT !.table_names = db.table_names \cup {name},
               !.rows = [db.rows EXCEPT ![name] = <<>>]]

\* metadata.create_all(engine): CREATE TABLE unless the table exists
create_all(db, name) ==
    [db EXCEPT !.table_names = db.table_names \cup {name}]

\* Variant: the lookup never finds the index.
index_exists_never(db, name) == FALSE

\* index_exists: SELECT 1 FROM pg_indexes WHERE indexname = ...
index_exists(db, name) == db.index[name] # "NO_INDEX"

\* CREATE INDEX CONCURRENTLY enters the index in the catalog, not yet valid
begin_build(db, name) ==
    [db EXCEPT !.index = [db.index EXCEPT ![name] = "BUILDING"]]

\* Variant: the build ends without making the index valid.
finish_build_invalid(db, name) == db

\* ... and makes it valid when the build is complete
finish_build(db, name) ==
    [db EXCEPT !.index = [db.index EXCEPT ![name] = "READY"]]

\* Variant: the index is never built.
create_index_skipped(db, name) == db

\* CREATE INDEX CONCURRENTLY IF NOT EXISTS, run when index_exists is false
create_index(db, name) ==
    IF index_exists(db, name) THEN db
    ELSE finish_build(begin_build(db, name), name)

\* _setup_table for collection `name` with config.replace_collection = replace.
\* config.replace_collection is read only here, right after set_collection or
\* the caller's configuration sets it, so it is a parameter and no variable.
\* Variant: config.replace_collection is not consulted.
_setup_table_keep(db, name, replace) ==
    LET d2 == create_all(db, name)
    IN  [err |-> "none", db |-> create_index(d2, name),
         built |-> ~index_exists(d2, name)]

\* `built` tells whether the CREATE INDEX statement was executed.
_setup_table(db, name, replace) ==
    LET d1 == IF replace THEN delete_collection(db, name) ELSE Done(db)
        d2 == create_all(d1.db, name)
    IN  IF d1.err # "none" THEN [err |-> d1.err, db |-> d1.db, built |-> FALSE]
        ELSE [err |-> "none", db |-> create_index(d2, name),
              built |-> ~index_exists(d2, name)]

\* the loop of clear_all_collections over the tables in S; the first
\* delete_collection that raises ends it
RECURSIVE delete_collections(_, _)
delete_collections(db, S) ==
    IF S = {} THEN Done(db)
    ELSE LET c == CHOOSE x \in S : TRUE
             d1 == delete_collection(db, c)
         IN  IF d1.err # "none" THEN d1 ELSE delete_collections(d1.db, S \ {c})

\* Variant: the confirmation flag is not consulted.
clear_all_unconfirmed(db, really, prefix) ==
    LET doomed == { t \in db.table_names : startswith(t, prefix) }
        out == delete_collections(db, doomed)
    IN  [err |-> out.err, db |-> out.db, ret |-> Cardinality(doomed)]

\* clear_all_collections(really, prefix): outcome and returned count
clear_all(db, really, prefix) ==
    IF ~really THEN [err |-> "none", db |-> db, ret |-> 0]
    ELSE LET doomed == { t \in db.table_names : startswith(t, prefix) }
             out == delete_collections(db, doomed)
         IN  [err |-> out.err, db |-> out.db,
              ret |-> IF out.err = "none" THEN Cardinality(doomed) ELSE <<>>]

\* Variant: every table is reported as holding a row.
has_row_always(db, t) == TRUE

\* session.query(table.select().limit(1).exists()).scalar()
has_row(db, t) == db.rows[t] # <<>>

\* DROP INDEX CONCURRENTLY and DROP TABLE on table t wait until no other
\* transaction holds a lock on t.  `held` are the tables the open
\* transaction of the calling method's session has read (ACCESS SHARE, kept
\* until session.commit() or the end of the `with` block); the DROP
\* statements run on other connections of the pool.
lock_wait(held, t) == t \in held

\* the loop of clear_empty_collections over the tables in S, in the
\* session whose transaction has read the tables in `held`
RECURSIVE clear_empty(_, _, _, _)
clear_empty(db, S, held, deleted_count) ==
    IF S = {} THEN [err |-> "none", db |-> db, ret |-> deleted_count]
    ELSE LET t == CHOOSE x \in S : TRUE
             read == held \cup {t}
         IN  IF has_row(db, t)
             THEN clear_empty(db, S \ {t}, read, deleted_count)
             ELSE IF lock_wait(read, t)
             THEN [err |-> "blocked", db |-> db, ret |-> <<>>]
             ELSE LET d1 == delete_collection(db, t)
                  IN  IF d1.err # "none"
                      THEN [err |-> d1.err, db |-> d1.db, ret |-> <<>>]
                      ELSE clear_empty(d1.db, S \ {t}, read, deleted_count + 1)

SetDB(db) ==
    /\ table_names' = db.table_names
    /\ rows' = db.rows
    /\ index' = db.index

\* The record of a call: operation, arguments, exception raised ("none" if
\* none), value returned, and the database and active collection when the
\* call was made.
Call(op, args, err, ret) ==
    [op |-> op, args |-> args, err |-> err, ret |-> ret,
     pre |-> DB, pre_collection |-> collection_name]

\* The threads that use the store.  Spec, SpecBatch, SpecIds and
\* SpecMetaData take every call as one step of one caller and leave
\* `threads` alone; SpecSteps follows the calls of two threads statement by
\* statement.
Threads == {"t1", "t2"}

\* a thread that is in no call: pc = "done" after the call `op` returned
\* or raised `err`
Returned(op, args, err, concurrent) ==
    [op |-> op, pc |-> "done", args |-> args, err |-> err,
     concurrent |-> concurrent, pending |-> <<>>]

NoCalls == [t \in Threads |-> Returned("none", <<>>, "none", FALSE)]

----------------------------------------------------------------------------
(* Construction *)

\* PostgresDB(config): _setup_table on the configured collection.  The
\* database outlives the store: it is empty, or holds empty tables that an
\* earlier _setup_table created and left without their index (the table is
\* created before the index).
Init ==
    /\ collection_name \in Names
    /\ \E replace_collection \in BOOLEAN, earlier \in SUBSET Names :
         LET found == [table_names |-> earlier,
                       rows |-> [c \in Names |-> <<>>],
                       index |-> [c \in Names |-> "NO_INDEX"]]
             db == _setup_table(found, collection_name, replace_collection).db
         IN  /\ table_names = db.table_names
             /\ rows = db.rows
             /\ index = db.index
             /\ last = [op |-> "__init__", args |-> <<>>, err |-> "none",
                        ret |-> <<>>, pre |-> db,
                        pre_collection |-> collection_name]
    /\ threads = NoCalls

----------------------------------------------------------------------------
(* Collection lifecycle *)

\* set_collection(collection_name, replace); create_collection delegates to it
\* The call record also tells whether the call built the index.
set_collection_body(op, name, replace) ==
    LET call(err, built) ==
            [op |-> op, args |-> [name |-> name, replace |-> replace],
             err |-> err, ret |-> <<>>, pre |-> DB,
             pre_collection |-> collection_name, index_built |-> built]
    IN  IF name = collection_name /\ name \in table_names /\ ~replace
        THEN /\ UNCHANGED <<table_names, rows, index, collection_name, threads>>
             /\ last' = call("none", FALSE)
        ELSE LET out == _setup_table(DB, name, replace)
             IN  /\ collection_name' = name
                 /\ SetDB(out.db)
                 /\ UNCHANGED threads
                 /\ last' = call(out.err, out.built)

set_collection ==
    \E name \in Names, replace \in BOOLEAN :
        set_collection_body("set_collection", name, replace)

create_collection ==
    \E name \in Names, replace \in BOOLEAN :
        set_collection_body("create_collection", name, replace)

DeleteCollection ==
    \E name \in Names :
        LET out == delete_collection(DB, name)
        IN  /\ SetDB(out.db)
            /\ UNCHANGED <<collection_name, threads>>
            /\ last' = Call("delete_collection", [name |-> name], out.err, <<>>)

clear_all_collections ==
    \E really \in BOOLEAN, prefix \in Prefixes :
        LET out == clear_all(DB, really, prefix)
        IN  /\ SetDB(out.db)
            /\ UNCHANGED <<collection_name, threads>>
            /\ last' = Call("clear_all_collections",
                            [really |-> really, prefix |-> prefix],
                            out.err, out.ret)

\* list_collections(empty): the table names in the order get_table_names
\* gives them (no order is promised), all of them or those with a row.
list_collections ==
    \E empty \in BOOLEAN :
      \E order \in OrderBy(table_names, [t \in table_names |-> 0]) :
        LET listed(t) == empty \/ has_row(DB, t)
        IN  /\ UNCHANGED <<table_names, rows, index, collection_name, threads>>
            /\ last' = Call("list_collections", [empty |-> empty], "none",
                            SelectSeq(order, listed))

clear_empty_collections ==
    LET out == clear_empty(DB, table_names, {}, 0)
    IN  /\ SetDB(out.db)
        /\ UNCHANGED <<collection_name, threads>>
        /\ last' = Call("clear_empty_collections", <<>>, out.err, out.ret)

----------------------------------------------------------------------------
(* Writes *)

\* The records add_documents builds: the first loop replaces every
\* document's metadata.id by _id_to_uuid(id, metadata), the second loop
\* builds one record per document from the updated document.
new_record(doc) ==
    LET id == _id_to_uuid(doc.metadata.id, doc.metadata)
    IN  [id |-> id,
         embedding |-> embedding_fn(doc.content),
         document |-> doc.content,
         cmetadata |-> [doc.metadata EXCEPT !.id = id]]

new_records(documents) == [n \in DOMAIN documents |-> new_record(documents[n])]

\* Variant: the table has no key on id.
unique_violation_never(stored, records) == FALSE

\* INSERT of several rows into a table with primary key id: the statement
\* violates the key when two of its rows, or one of its rows and a stored
\* row, have the same id.
unique_violation(stored, records) ==
    \/ \E m, n \in DOMAIN records : m # n /\ records[m].id = records[n].id
    \/ \E m \in DOMAIN records, n \in DOMAIN stored : records[m].id = stored[n].id

\* Variant: the new rows take the place of the stored ones.
insert_overwriting(db, name, records) ==
    IF name \notin db.table_names
    THEN [err |-> "ProgrammingError", db |-> db]
    ELSE Done([db EXCEPT !.rows = [db.rows EXCEPT ![name] = records]])

\* session.execute(insert(table), records); session.commit().  A failed
\* statement raises and the session is closed without commit.
insert(db, name, records) ==
    IF name \notin db.table_names
    THEN [err |-> "ProgrammingError", db |-> db]
    ELSE IF unique_violation(db.rows[name], records)
    THEN [err |-> "IntegrityError", db |-> db]
    ELSE Done([db EXCEPT !.rows = [db.rows EXCEPT ![name] = @ \o records]])

\* texts on which the injected embedding function raises
embedding_raises(text) == text = "bad"

\* Variant: the documents are embedded, inserted and committed one by one,
\* up to the first that fails.
add_records_one_by_one(db, name, documents) ==
    LET first(j) == SubSeq(documents, 1, j)
        accepted(j) ==
            /\ \A n \in 1..j : ~embedding_raises(documents[n].content)
            /\ j > 0 => insert(db, name, new_records(first(j))).err = "none"
        k == CHOOSE j \in 0..Len(documents) :
                 /\ accepted(j)
                 /\ j < Len(documents) => ~accepted(j + 1)
    IN  [err |-> IF k = Len(documents) THEN "none" ELSE "IntegrityError",
         db |-> IF k = 0 THEN db ELSE insert(db, name, new_records(first(k))).db]

\* The body of add_documents on collection `name`: the records are built
\* (one embedding_fn call per document) before the INSERT is executed, and
\* nothing is executed for an empty list.
add_records(db, name, documents) ==
    IF \E n \in DOMAIN documents : embedding_raises(documents[n].content)
    THEN [err |-> "EmbeddingError", db |-> db]
    ELSE IF documents = <<>> THEN Done(db)
    ELSE insert(db, name, new_records(documents))

add_documents ==
    \E documents \in SeqsUpTo(Documents, MaxBatch) :
        LET out == add_records(DB, collection_name, documents)
        IN  /\ out.err = "none" => TotalRows + Len(documents) <= MaxRows
            /\ SetDB(out.db)
            /\ UNCHANGED <<collection_name, threads>>
            /\ last' = Call("add_documents", [documents |-> documents], out.err, <<>>)

----------------------------------------------------------------------------
(* Reads *)

\* _parse_embedding_store_record: the Document of a row
parse_record(res) ==
    [content |-> res.document,
     metadata |-> [res.cmetadata EXCEPT !.id = res.id]]

\* Variant: the queries are not scoped to the active collection's table.
embeddings_table_any == rows[<<"t", "a">>] \o rows[<<"p">>]

\* self.embeddings_table: the table named config.collection_name
embeddings_table == rows[collection_name]

table_exists == collection_name \in table_names

get_all_documents ==
    \E where \in WhereStrings :
        LET parsed == json_loads(where)
            match == [n \in DOMAIN embeddings_table |->
                         where = "" \/ contains(embeddings_table[n].cmetadata,
                                                parsed.val)]
            results == StorageOrder(Where(embeddings_table, match))
            documents == [n \in DOMAIN results |->
                             parse_record(embeddings_table[results[n]])]
            call(err, ret) == Call("get_all_documents", [where |-> where], err, ret)
        IN  /\ last' = IF where # "" /\ ~parsed.ok THEN call("none", <<>>)
                       ELSE IF ~table_exists THEN call("ProgrammingError", <<>>)
                       ELSE call("none", documents)
            /\ UNCHANGED <<table_names, rows, index, collection_name, threads>>

\* Ids a caller may look up: the ids a stored record can have, and one
\* id no record has.
LookupIds ==
    { _id_to_uuid(d.metadata.id, d.metadata) : d \in Documents }
        \cup { <<"uuid", "u9">> }

\* Variant: the first occurrence of an id keeps its entry.
ordinal_of_first(ids, id) ==
    CHOOSE n \in DOMAIN ids :
        ids[n] = id /\ \A m \in DOMAIN ids : ids[m] = id => n <= m

\* {id_: index for index, id_ in enumerate(ids)}[id]: a later occurrence of
\* an id replaces the earlier entry of the dict.
ordinal(ids, id) ==
    CHOOSE n \in DOMAIN ids :
        ids[n] = id /\ \A m \in DOMAIN ids : ids[m] = id => m <= n

\* Variant: every id is given the same ordinal, so nothing is ordered.
case_whens_unordered(ids) == [id \in { ids[n] : n \in DOMAIN ids } |-> 0]

\* case({id_: index ...}, value=embeddings_table.c.id): one WHEN per key of
\* the dict
case_whens(ids) == [id \in { ids[n] : n \in DOMAIN ids } |-> ordinal(ids, id)]

\* Variant: the IN filter is missing.
id_in_unfiltered(id, ids) == TRUE

\* embeddings_table.c.id.in_(ids)
id_in(id, ids) == \E n \in DOMAIN ids : ids[n] = id

\* get_documents_by_ids(ids)
lookup(ids) ==
        LET whens == case_whens(ids)
            in == [n \in DOMAIN embeddings_table |->
                      id_in(embeddings_table[n].id, ids)]
            \* CASE without ELSE is NULL for an id it does not list, and
            \* ORDER BY puts NULL last
            case_stmt == [n \in DOMAIN embeddings_table |->
                             IF embeddings_table[n].id \in DOMAIN whens
                             THEN whens[embeddings_table[n].id] ELSE Len(ids) + 1]
            call(err, ret) == Call("get_documents_by_ids", [ids |-> ids], err, ret)
        IN  /\ IF ~table_exists THEN last' = call("ProgrammingError", <<>>)
               ELSE \E results \in OrderBy(Where(embeddings_table, in), case_stmt) :
                        last' = call("none",
                                     [n \in DOMAIN results |->
                                         parse_record(embeddings_table[results[n]])])
            /\ UNCHANGED <<table_names, rows, index, collection_name, threads>>

get_documents_by_ids ==
    \E ids \in SeqsUpTo(LookupIds, MaxIds) \ {<<>>} : lookup(ids)

\* Variant: rank and cut first, filter afterwards.
select_top_k_then_filter(r, match, distance, k) ==
    { SelectSeq(Limit(ordered, k), LAMBDA n : match[n]) :
        ordered \in OrderBy(DOMAIN r, distance) }

\* query.filter(Match).order_by(distance).limit(k).all(): the row positions
\* the statement may return
select_top_k(r, match, distance, k) ==
    { Limit(ordered, k) : ordered \in OrderBy(Where(r, match), distance) }

similar_texts_with_scores ==
    \E query \in Queries, k \in 1..MaxK, where \in WhereStrings \cup {None} :
        LET embedding == embedding_fn(query)
            parsed == json_loads(where)
            match == [n \in DOMAIN embeddings_table |->
                         where = None \/ contains(embeddings_table[n].cmetadata,
                                                  parsed.val)]
            distance == [n \in DOMAIN embeddings_table |->
                            cosine_distance(embeddings_table[n].embedding, embedding)]
            item(n) == [content |-> embeddings_table[n].document,
                        metadata |-> embeddings_table[n].cmetadata,
                        score |-> score(embeddings_table[n].embedding, embedding)]
            call(err, ret) ==
                Call("similar_texts_with_scores",
                     [query |-> query, k |-> k, where |-> where], err, ret)
        IN  /\ IF where # None /\ ~parsed.ok THEN last' = call("ValueError", <<>>)
               ELSE IF ~table_exists THEN last' = call("ProgrammingError", <<>>)
               ELSE \E results \in select_top_k(embeddings_table, match, distance, k) :
                        last' = call("none",
                                     [n \in DOMAIN results |-> item(results[n])])
            /\ UNCHANGED <<table_names, rows, index, collection_name, threads>>

----------------------------------------------------------------------------

Next ==
    \/ set_collection
    \/ create_collection
    \/ DeleteCollection
    \/ clear_all_collections
    \/ list_collections
    \/ clear_empty_collections
    \/ add_documents
    \/ get_all_documents
    \/ get_documents_by_ids
    \/ similar_texts_with_scores

Spec == Init /\ [][Next]_vars

----------------------------------------------------------------------------
(* _id_to_uuid on its own: the function applied to candidate ids and        *)
(* metadata objects, and applied again to the id it returned, as           *)
(* add_documents does when a document it has processed is submitted again. *)

\* candidate ids: two spellings of one UUID, another UUID, two other strings
CandidateIds ==
    { <<"uuid", "u1">>, <<"UUID", "u1">>, <<"uuid", "u2">>,
      <<"str", "raw">>, <<"str", "other">> }

Tags == {"x", "y"}

\* The record of a call of _id_to_uuid, with the call before it.
IdCall(id, tag) ==
    LET obj == [id |-> id, tag |-> tag]
    IN  [op |-> "_id_to_uuid", args |-> [id |-> id, obj |-> obj],
         err |-> "none", ret |-> _id_to_uuid(id, obj),
         pre |-> DB, pre_collection |-> collection_name,
         before |-> [op |-> last.op, args |-> last.args, ret |-> last.ret]]

InitIds ==
    /\ collection_name = <<"p">>
    /\ table_names = {}
    /\ rows = [c \in Names |-> <<>>]
    /\ index = [c \in Names |-> "NO_INDEX"]
    /\ last = [op |-> "__init__", args |-> <<>>, err |-> "none",
               ret |-> <<>>, pre |-> DB, pre_collection |-> collection_name]
    /\ threads = NoCalls

\* _id_to_uuid on a document's candidate id and metadata
id_to_uuid ==
    \E id \in CandidateIds, tag \in Tags :
        /\ last' = IdCall(id, tag)
        /\ UNCHANGED <<table_names, rows, index, collection_name, threads>>

\* _id_to_uuid on the id the call before returned (doc.metadata.id was
\* set to it), the rest of the metadata being the same or not
id_to_uuid_again ==
    /\ last.op = "_id_to_uuid"
    /\ \E tag \in Tags :
         /\ last' = IdCall(last.ret, tag)
         /\ UNCHANGED <<table_names, rows, index, collection_name, threads>>

NextIds ==
    \/ id_to_uuid
    \/ id_to_uuid_again

SpecIds == InitIds /\ [][NextIds]_vars

----------------------------------------------------------------------------
(* DocMetaData on its own: the constructor applied to keyword arguments,   *)
(* and the record add_documents builds from a constructed object.  Field   *)
(* values are strings in the form of the ids, <<"str", text>>.             *)

\* the fields ensure_not_empty validates
ValidatedFields == {"source", "source_content", "id", "title", "published_date"}

\* a keyword argument that is not given
Absent == <<"absent">>

\* what a caller passes for a field
FieldInputs(f) ==
    IF f = "id"
    THEN {Absent, <<"str", "">>, <<"str", "raw">>, <<"uuid", "u1">>}
    ELSE {Absent, <<"str", "">>, <<"str", "v">>}

\* field defaults; the default id is a fresh uuid4
FieldDefault(f) ==
    CASE f = "source"         -> <<"str", "context">>
      [] f = "source_content" -> <<"str", "context">>
      [] f = "title"          -> <<"str", "Unknown Title">>
      [] f = "published_date" -> <<"str", "Unknown Date">>
      [] f = "id"             -> <<"uuid", "u4">>

\* Variant: every value passes the validator.
ensure_not_empty_lenient(v) == TRUE

\* ensure_not_empty: `if not v: raise ValueError`; TRUE when v passes
ensure_not_empty(v) == v # <<"str", "">>

\* DocMetaData(**kwargs): the validator runs on the fields that are given
DocMetaData(kwargs) ==
    IF \E f \in ValidatedFields :
           kwargs[f] # Absent /\ ~ensure_not_empty(kwargs[f])
    THEN [err |-> "ValidationError", val |-> <<>>]
    ELSE [err |-> "none",
          val |-> [f \in ValidatedFields |->
                      IF kwargs[f] = Absent THEN FieldDefault(f) ELSE kwargs[f]]]

InitMetaData == InitIds

construct ==
    \E kwargs \in [ValidatedFields -> UNION { FieldInputs(f) : f \in ValidatedFields }] :
        /\ \A f \in ValidatedFields : kwargs[f] \in FieldInputs(f)
        /\ LET out == DocMetaData(kwargs)
           IN  last' = Call("DocMetaData", kwargs, out.err, out.val)
        /\ UNCHANGED <<table_names, rows, index, collection_name, threads>>

\* the record add_documents builds for a document with the constructed
\* metadata
record_of_constructed ==
    /\ last.op = "DocMetaData"
    /\ last.err = "none"
    /\ last' = Call("new_record", [metadata |-> last.ret], "none",
                    new_record([content |-> "near", metadata |-> last.ret]))
    /\ UNCHANGED <<table_names, rows, index, collection_name, threads>>

NextMetaData ==
    \/ construct
    \/ record_of_constructed

SpecMetaData == InitMetaData /\ [][NextMetaData]_vars

----------------------------------------------------------------------------
(* add_documents with batches of several documents, among them documents   *)
(* the embedding function fails on and documents with the same id.         *)

\* documents in one add_documents call of this specification
MaxFailingBatch == 2

BatchDocuments ==
    { Doc("near", <<"uuid", "u1">>, "x"), Doc("far", <<"uuid", "u1">>, "x"),
      Doc("near", <<"str", "raw">>, "y"), Doc("bad", <<"uuid", "u2">>, "x") }

add_documents_batch ==
    \E documents \in SeqsUpTo(BatchDocuments, MaxFailingBatch) :
        LET out == add_records(DB, collection_name, documents)
        IN  /\ out.err = "none" => TotalRows + Len(documents) <= MaxRows
            /\ SetDB(out.db)
            /\ UNCHANGED <<collection_name, threads>>
            /\ last' = Call("add_documents", [documents |-> documents], out.err, <<>>)

NextBatch ==
    \/ add_documents_batch
    \/ DeleteCollection
    \/ set_collection

SpecBatch == Init /\ [][NextBatch]_vars

----------------------------------------------------------------------------
(* get_documents_by_ids with input sequences long enough for an id to      *)
(* occur again after another id.                                           *)

\* ids in one get_documents_by_ids call of this specification
MaxRepeatedIds == 3

LookupDocuments ==
    { Doc("near", <<"uuid", "u1">>, "x"), Doc("far", <<"str", "raw">>, "y") }

\* the ids of these documents and one id no record has
RepeatedLookupIds ==
    { _id_to_uuid(d.metadata.id, d.metadata) : d \in LookupDocuments }
        \cup { <<"uuid", "u9">> }

add_documents_one ==
    \E d \in LookupDocuments :
        LET out == add_records(DB, collection_name, <<d>>)
        IN  /\ out.err = "none" => TotalRows + 1 <= MaxRows
            /\ SetDB(out.db)
            /\ UNCHANGED <<collection_name, threads>>
            /\ last' = Call("add_documents", [documents |-> <<d>>], out.err, <<>>)

get_documents_by_ids_repeated ==
    \E ids \in SeqsUpTo(RepeatedLookupIds, MaxRepeatedIds) \ {<<>>} : lookup(ids)

NextLookup ==
    \/ add_documents_one
    \/ get_documents_by_ids_repeated

SpecLookup == Init /\ [][NextLookup]_vars

----------------------------------------------------------------------------
(* The calls statement by statement.  Two threads share the store and call *)
(* it on the active collection.  add_documents and the reads of the two    *)
(* threads interleave freely with each other and with a set_collection or  *)
(* delete_collection; of the latter two one runs at a time (they write     *)
(* the shared config and are to be serialised by the callers).             *)

StepDocuments ==
    { Doc("near", <<"uuid", "u1">>, "x"), Doc("far", <<"uuid", "u1">>, "x"),
      Doc("near", <<"str", "raw">>, "y") }

ReadOps ==
    {"get_all_documents", "get_documents_by_ids", "similar_texts_with_scores"}

LifecycleOps == {"set_collection", "delete_collection"}

Idle(t) == threads[t].pc = "done"

\* PostgreSQL's table lock modes: does a lock held in mode `held` make a
\* request for mode `requested` wait?
conflicts(held, requested) ==
    CASE held = "none" -> FALSE
      [] held = "AccessShare" -> requested = "AccessExclusive"
      [] held = "RowExclusive" ->
           requested \in {"Share", "ShareRowExclusive", "Exclusive",
                          "AccessExclusive"}
      [] held = "ShareUpdateExclusive" ->
           requested \in {"ShareUpdateExclusive", "Share", "ShareRowExclusive",
                          "Exclusive", "AccessExclusive"}
      [] held = "Share" ->
           requested \in {"RowExclusive", "ShareUpdateExclusive",
                          "ShareRowExclusive", "Exclusive", "AccessExclusive"}
      [] held = "AccessExclusive" -> TRUE

\* Variant: CREATE INDEX without CONCURRENTLY, which locks out writes.
build_lock_plain == "Share"

\* the lock CREATE INDEX CONCURRENTLY holds on the table while it builds
build_lock == "ShareUpdateExclusive"

\* The lock thread t holds on the table of the active collection between
\* two of its steps: that of the index build, or that of the INSERT whose
\* transaction is not committed yet.
held(t) ==
    IF threads[t].pc = "building" THEN build_lock
    ELSE IF threads[t].pc = "commit" THEN "RowExclusive"
    ELSE "none"

\* a statement of thread t that requests the table lock `requested` waits
waits(t, requested) ==
    \E u \in Threads \ {t} : conflicts(held(u), requested)

\* an INSERT waits for the end of a transaction that has inserted one of
\* its ids
insert_waits(t, records) ==
    \E u \in Threads \ {t} :
        \E m \in DOMAIN threads[u].pending, n \in DOMAIN records :
            threads[u].pending[m].id = records[n].id

\* Variant: the table is dropped first, then the index.
delete_order_table_first == <<"drop_table", "drop_index">>

\* delete_collection: DROP INDEX, then table.drop
delete_order == <<"drop_index", "drop_table">>

\* the step after the drop step `pc` of a call `op`
after_drop(op, pc) ==
    IF pc = delete_order[1] THEN delete_order[2]
    ELSE IF op = "delete_collection" THEN "done"
    ELSE "create_table"

\* thread t enters a call; a call in flight in another thread is
\* concurrent with it
Begin(t, op, pc, args, err) ==
    threads' =
        [u \in Threads |->
            IF u = t
            THEN [op |-> op, pc |-> pc, args |-> args, err |-> err,
                  concurrent |-> \E v \in Threads \ {t} : ~Idle(v),
                  pending |-> <<>>]
            ELSE [threads[u] EXCEPT !.concurrent = @ \/ ~Idle(u)]]

Goto(t, pc) == threads' = [threads EXCEPT ![t].pc = pc]

Return(t, err) ==
    threads' = [threads EXCEPT ![t].pc = "done", ![t].err = err,
                               ![t].pending = <<>>]

NoLifecycleCall ==
    \A u \in Threads : Idle(u) \/ threads[u].op \notin LifecycleOps

InitSteps == Init

\* set_collection(config.collection_name, replace) up to its return or to
\* the first statement of _setup_table
StartSetCollection(t) ==
    /\ Idle(t)
    /\ NoLifecycleCall
    /\ \E replace \in BOOLEAN :
         LET args == [name |-> collection_name, replace |-> replace]
         IN  IF collection_name \in table_names /\ ~replace
             THEN Begin(t, "set_collection", "done", args, "none")
             ELSE Begin(t, "set_collection",
                        IF replace THEN delete_order[1] ELSE "create_table",
                        args, "none")
    /\ UNCHANGED <<table_names, rows, index, collection_name, last>>

StartDeleteCollection(t) ==
    /\ Idle(t)
    /\ NoLifecycleCall
    /\ Begin(t, "delete_collection", delete_order[1],
             [name |-> collection_name], "none")
    /\ UNCHANGED <<table_names, rows, index, collection_name, last>>

\* DROP INDEX CONCURRENTLY IF EXISTS waits for every transaction that holds
\* a lock on the table
DropIndex(t) ==
    /\ threads[t].pc = "drop_index"
    /\ ~waits(t, "AccessExclusive")
    /\ SetDB(drop_index(DB, threads[t].args.name).db)
    /\ Goto(t, after_drop(threads[t].op, "drop_index"))
    /\ UNCHANGED <<collection_name, last>>

DropTable(t) ==
    /\ threads[t].pc = "drop_table"
    /\ ~waits(t, "AccessExclusive")
    /\ SetDB(drop_table(DB, threads[t].args.name).db)
    /\ Goto(t, after_drop(threads[t].op, "drop_table"))
    /\ UNCHANGED <<collection_name, last>>

CreateTable(t) ==
    /\ threads[t].pc = "create_table"
    /\ SetDB(create_all(DB, threads[t].args.name))
    /\ Goto(t, "index_exists")
    /\ UNCHANGED <<collection_name, last>>

IndexExists(t) ==
    /\ threads[t].pc = "index_exists"
    /\ IF index_exists(DB, threads[t].args.name)
       THEN Return(t, "none")
       ELSE Goto(t, "create_index")
    /\ UNCHANGED <<table_names, rows, index, collection_name, last>>

\* CREATE INDEX CONCURRENTLY IF NOT EXISTS begins
CreateIndex(t) ==
    /\ threads[t].pc = "create_index"
    /\ ~waits(t, build_lock)
    /\ LET name == threads[t].args.name
       IN  IF name \notin table_names
           THEN Return(t, "ProgrammingError") /\ UNCHANGED <<table_names, rows, index>>
           ELSE IF index_exists(DB, name)
           THEN Return(t, "none") /\ UNCHANGED <<table_names, rows, index>>
           ELSE SetDB(begin_build(DB, name)) /\ Goto(t, "building")
    /\ UNCHANGED <<collection_name, last>>

\* ... and ends.  Its waits are for transactions that were open when it
\* began to wait, each of which ends; they are not modelled.
FinishBuild(t) ==
    /\ threads[t].pc = "building"
    /\ SetDB(finish_build(DB, threads[t].args.name))
    /\ Return(t, "none")
    /\ UNCHANGED <<collection_name, last>>

StartAddDocuments(t) ==
    /\ Idle(t)
    /\ \E doc \in StepDocuments :
         Begin(t, "add_documents", "insert", [documents |-> <<doc>>], "none")
    /\ UNCHANGED <<table_names, rows, index, collection_name, last>>

\* session.execute(insert(self.embeddings_table), new_records): the rows
\* are the transaction's own until it commits
Insert(t) ==
    /\ threads[t].pc = "insert"
    /\ ~waits(t, "RowExclusive")
    /\ LET documents == threads[t].args.documents
           out == add_records(DB, collection_name, documents)
       IN  /\ out.err = "none" => ~insert_waits(t, new_records(documents))
           /\ IF out.err # "none" THEN Return(t, out.err)
              ELSE threads' = [threads EXCEPT
                                  ![t].pc = "commit",
                                  ![t].pending = new_records(documents)]
    /\ UNCHANGED <<table_names, rows, index, collection_name, last>>

\* session.commit()
Commit(t) ==
    /\ threads[t].pc = "commit"
    /\ rows' = [rows EXCEPT ![collection_name] = @ \o threads[t].pending]
    /\ Return(t, "none")
    /\ UNCHANGED <<table_names, index, collection_name, last>>

\* get_all_documents, get_documents_by_ids, similar_texts_with_scores:
\* one SELECT; what it returns is the subject of Spec
Read(t) ==
    /\ Idle(t)
    /\ ~waits(t, "AccessShare")
    /\ \E op \in ReadOps :
         Begin(t, op, "done", <<>>,
               IF table_exists THEN "none" ELSE "ProgrammingError")
    /\ UNCHANGED <<table_names, rows, index, collection_name, last>>

\* the steps of thread t within a call
Continue(t) ==
    \/ DropIndex(t)
    \/ DropTable(t)
    \/ CreateTable(t)
    \/ IndexExists(t)
    \/ CreateIndex(t)
    \/ FinishBuild(t)
    \/ Insert(t)
    \/ Commit(t)

NextSteps ==
    \E t \in Threads :
        \/ StartSetCollection(t)
        \/ StartDeleteCollection(t)
        \/ StartAddDocuments(t)
        \/ Read(t)
        \/ Continue(t)

\* A thread that is in a call goes on with it.
SpecSteps ==
    /\ InitSteps
    /\ [][NextSteps]_vars
    /\ \A t \in Threads : WF_vars(Continue(t))

----------------------------------------------------------------------------
(* Two store handles on the same database, configured with the same        *)
(* collection, run their setup statement by statement.  Each handle has    *)
(* its own config and engine; `threads` holds the position of each handle, *)
(* `collection_name` the collection both are configured with.              *)

\* What the handles find: for each name no table, a table without index
\* (an interrupted setup) or a table with its index (a completed setup).
InitSetup ==
    /\ collection_name \in Names
    /\ table_names \in SUBSET Names
    /\ rows = [c \in Names |-> <<>>]
    /\ index \in [Names -> {"NO_INDEX", "READY"}]
    /\ \A c \in Names : index[c] = "READY" => c \in table_names
    /\ last = [op |-> "none", args |-> <<>>, err |-> "none", ret |-> <<>>,
               pre |-> DB, pre_collection |-> collection_name]
    /\ threads = NoCalls

\* PostgresDB(config) with replace_collection = False: __init__ calls
\* _setup_table
StartSetup(t) ==
    /\ Idle(t)
    /\ Begin(t, "__init__", "has_table",
             [name |-> collection_name, replace |-> FALSE], "none")
    /\ UNCHANGED <<table_names, rows, index, collection_name, last>>

\* metadata.create_all(engine), first half: the check for the table
HasTable(t) ==
    /\ threads[t].pc = "has_table"
    /\ IF threads[t].args.name \in table_names
       THEN Goto(t, "index_exists")
       ELSE Goto(t, "create_table_statement")
    /\ UNCHANGED <<table_names, rows, index, collection_name, last>>

\* metadata.create_all(engine), second half: CREATE TABLE, issued because
\* the check found no table.  If another handle has created the table
\* since, the statement fails: "relation already exists"
\* (ProgrammingError), or a unique violation in the catalog when it waited
\* for the other CREATE TABLE to commit (IntegrityError).
CreateTableStatement(t) ==
    /\ threads[t].pc = "create_table_statement"
    /\ IF threads[t].args.name \in table_names
       THEN /\ \E err \in {"ProgrammingError", "IntegrityError"} : Return(t, err)
            /\ UNCHANGED <<table_names, rows, index>>
       ELSE /\ SetDB(create_all(DB, threads[t].args.name))
            /\ Goto(t, "index_exists")
    /\ UNCHANGED <<collection_name, last>>

\* the steps of handle t within its setup
ContinueSetup(t) ==
    \/ HasTable(t)
    \/ CreateTableStatement(t)
    \/ IndexExists(t)
    \/ CreateIndex(t)
    \/ FinishBuild(t)

NextSetup ==
    \E t \in Threads :
        \/ StartSetup(t)
        \/ ContinueSetup(t)

\* A handle that is in its setup goes on with it.
SpecSetup ==
    /\ InitSetup
    /\ [][NextSetup]_vars
    /\ \A t \in Threads : WF_vars(ContinueSetup(t))

----------------------------------------------------------------------------
(* Properties *)

StoredIds(r) == { r[n].id : n \in DOMAIN r }
ReturnedIds(ret) == { ret[n].metadata.id : n \in DOMAIN ret }
Distinct(q) == \A m, n \in DOMAIN q : m # n => q[m] # q[n]

\* C1: Idempotent upsert.  When add_documents([D]) is called and the active
\* collection already holds a record with D's derived id (D was inserted
\* before), the call succeeds and the collection afterwards holds exactly
\* one record with that id, whose content is D's content.
C1_IdempotentUpsert ==
    LET D == last.args.documents[1]
        id == _id_to_uuid(D.metadata.id, D.metadata)
        now == rows[collection_name]
    IN  ( /\ last.op = "add_documents"
          /\ Len(last.args.documents) = 1
          /\ last.pre_collection \in last.pre.table_names
          /\ id \in StoredIds(last.pre.rows[last.pre_collection]) )
        => /\ last.err = "none"
           /\ Cardinality({ n \in DOMAIN now : now[n].id = id }) = 1
           /\ \A n \in DOMAIN now : now[n].id = id => now[n].document = D.content

\* C2: Order preservation.  For an input sequence of distinct ids,
\* get_documents_by_ids returns the found documents in the relative order
\* of their ids in the input, whatever the storage order.
C2_OrderPreserved ==
    ( /\ last.op = "get_documents_by_ids"
      /\ last.err = "none"
      /\ Distinct(last.args.ids) )
    => \A i, j \in DOMAIN last.ret :
          i < j => \E m, n \in DOMAIN last.args.ids :
                      /\ m < n
                      /\ last.args.ids[m] = last.ret[i].metadata.id
                      /\ last.args.ids[n] = last.ret[j].metadata.id

\* C2 happens: two documents were returned, in the order opposite to the
\* order in which their records are stored.
C2_Witness ==
    /\ last.op = "get_documents_by_ids"
    /\ last.err = "none"
    /\ Distinct(last.args.ids)
    /\ Len(last.ret) = 2
    /\ Len(rows[collection_name]) = 2
    /\ rows[collection_name][1].id = last.ret[2].metadata.id
    /\ rows[collection_name][2].id = last.ret[1].metadata.id

WellFormed(where) == where \in { "{}", "{\"tag\": \"x\"}", "{\"tag\": \"y\"}" }
SatisfyingTags(where) ==
    CASE where = "{\"tag\": \"x\"}" -> {"x"}
      [] where = "{\"tag\": \"y\"}" -> {"y"}
      [] OTHER -> {"x", "y"}

\* The rows of the active collection that take part in the ranking of the
\* last similarity query, and the similarity of a row to its query
Participating ==
    { n \in DOMAIN rows[collection_name] :
        rows[collection_name][n].cmetadata.tag \in SatisfyingTags(last.args.where) }
Similarity(n) ==
    Dot(rows[collection_name][n].embedding, embedding_fn(last.args.query))
IsSimilarCall == last.op = "similar_texts_with_scores"

\* a row that does not satisfy the filter is strictly nearer to the query
\* than every row that does
NonMatchIsNearest ==
    \E n \in DOMAIN rows[collection_name] \ Participating :
        \A m \in Participating : Similarity(n) > Similarity(m)

\* C4: Filtered similarity excludes non-matches.  Every document that
\* similar_texts_with_scores returns for a well-formed filter has metadata
\* that satisfies the filter.
C4_FilterExcludesNonMatches ==
    ( IsSimilarCall /\ WellFormed(last.args.where) /\ last.err = "none" )
    => \A n \in DOMAIN last.ret :
          last.ret[n].metadata.tag \in SatisfyingTags(last.args.where)

\* C4 happens: a filtered query returned documents although a record that
\* does not match the filter is nearer than every matching one.
C4_Witness ==
    /\ IsSimilarCall
    /\ last.err = "none"
    /\ last.args.where \in { "{\"tag\": \"x\"}", "{\"tag\": \"y\"}" }
    /\ last.ret # <<>>
    /\ NonMatchIsNearest

Min(a, b) == IF a < b THEN a ELSE b

\* C5: Filter-then-rank.  With a well-formed filter on an existing active
\* collection, similar_texts_with_scores returns exactly min(k, M) results,
\* M being the number of records whose metadata matches the filter.
C5_FilterThenRank ==
    ( IsSimilarCall /\ WellFormed(last.args.where) /\ collection_name \in table_names )
    => /\ last.err = "none"
       /\ Len(last.ret) = Min(last.args.k, Cardinality(Participating))

\* C5 happens: k = 1, the nearest record does not match the filter, and the
\* one result is a matching record.
C5_Witness ==
    /\ IsSimilarCall
    /\ last.err = "none"
    /\ last.args.where \in { "{\"tag\": \"x\"}", "{\"tag\": \"y\"}" }
    /\ last.args.k = 1
    /\ Len(last.ret) = 1
    /\ Participating # {}
    /\ NonMatchIsNearest

\* the row a returned item was made from
RowOf(item) ==
    CHOOSE n \in DOMAIN rows[collection_name] :
        rows[collection_name][n].id = item.metadata.id

\* C6: similar_texts_with_scores returns the k participating records
\* nearest to the query: every result is a participating record, no record
\* is returned twice, the results come nearest first with scores
\* descending, each score is the similarity of its record, and no
\* participating record left out is strictly nearer than a returned one.
C6_NearestFirst ==
    LET ret == last.ret
    IN  ( /\ IsSimilarCall
          /\ last.err = "none"
          /\ last.args.where = None \/ WellFormed(last.args.where) )
        => /\ ReturnedIds(ret) \subseteq
                { rows[collection_name][n].id : n \in Participating }
           /\ Cardinality(ReturnedIds(ret)) = Len(ret)
           /\ Len(ret) = Min(last.args.k, Cardinality(Participating))
           /\ \A n \in DOMAIN ret : ret[n].score = Similarity(RowOf(ret[n]))
           /\ \A i, j \in DOMAIN ret : i < j => ret[i].score >= ret[j].score
           /\ \A n \in Participating :
                 rows[collection_name][n].id \notin ReturnedIds(ret)
                 => \A i \in DOMAIN ret : Similarity(n) <= ret[i].score

\* C6 happens: an unfiltered query with k = 1 on two records at different
\* distances returned one and left the farther one out.
C6_Witness ==
    /\ IsSimilarCall
    /\ last.err = "none"
    /\ last.args.where = None
    /\ last.args.k = 1
    /\ Len(last.ret) = 1
    /\ \E n \in Participating :
          /\ rows[collection_name][n].id \notin ReturnedIds(last.ret)
          /\ Similarity(n) < last.ret[1].score

Reads == { "get_all_documents", "get_documents_by_ids", "similar_texts_with_scores" }
Lifecycle == { "set_collection", "create_collection", "delete_collection",
               "clear_all_collections" }

\* C7: Collection isolation.  add_documents changes the records of the
\* active collection only, a lifecycle call adds no record to any
\* collection, and every document a read returns is a record of the
\* collection that is active at the read; so a document added while
\* collection A was active is never returned while another collection B
\* is active.
C7_CollectionIsolation ==
    /\ last.op = "add_documents" =>
          \A c \in Names \ {collection_name} : rows[c] = last.pre.rows[c]
    /\ last.op \in Lifecycle =>
          \A c \in Names : rows[c] = last.pre.rows[c] \/ rows[c] = <<>>
    /\ (last.op \in Reads /\ last.err = "none") =>
          \A n \in DOMAIN last.ret : \E m \in DOMAIN rows[collection_name] :
              /\ rows[collection_name][m].id = last.ret[n].metadata.id
              /\ rows[collection_name][m].document = last.ret[n].content

\* C7 happens: another collection holds records, none with an id of the
\* active collection, and an unfiltered scan of the active collection
\* returned documents.
C7_Witness ==
    /\ last.op = "get_all_documents"
    /\ last.args.where = ""
    /\ last.ret # <<>>
    /\ \E c \in Names \ {collection_name} :
          /\ rows[c] # <<>>
          /\ StoredIds(rows[c]) \cap StoredIds(rows[collection_name]) = {}

\* p is a prefix of t
HasPrefix(t, p) == Len(p) <= Len(t) /\ \A n \in 1..Len(p) : t[n] = p[n]

IsClearAll == last.op = "clear_all_collections"

\* C8: Destructive op gating.  clear_all_collections with really = False
\* returns 0 and leaves every table, record and index, and the active
\* collection, as they were, for every prefix.
C8_RefusedWithoutConfirmation ==
    ( IsClearAll /\ ~last.args.really )
    => /\ last.err = "none"
       /\ last.ret = 0
       /\ DB = last.pre
       /\ collection_name = last.pre_collection

\* C8 happens: the call was refused while a collection matching the prefix
\* held records.
C8_Witness ==
    /\ IsClearAll
    /\ ~last.args.really
    /\ \E t \in table_names : HasPrefix(t, last.args.prefix) /\ rows[t] # <<>>

\* C9: clear_all_collections with really = True deletes every collection
\* whose name starts with the prefix, table and index, and no other, leaves
\* the records and the index of the remaining collections unchanged, and
\* returns the number of collections it deleted.
C9_DeletesExactlyThePrefixed ==
    ( IsClearAll /\ last.args.really )
    => /\ last.err = "none"
       /\ table_names =
            { t \in last.pre.table_names : ~HasPrefix(t, last.args.prefix) }
       /\ \A t \in last.pre.table_names \ table_names :
             rows[t] = <<>> /\ index[t] = "NO_INDEX"
       /\ \A t \in table_names :
             rows[t] = last.pre.rows[t] /\ index[t] = last.pre.index[t]
       /\ last.ret = Cardinality(last.pre.table_names \ table_names)

\* C9 happens: a non-empty prefix deleted one collection and left another,
\* which holds records.
C9_Witness ==
    /\ IsClearAll
    /\ last.args.really
    /\ last.args.prefix # <<>>
    /\ last.ret = 1
    /\ \E t \in table_names : rows[t] # <<>>

\* C10: Idempotent delete.  delete_collection(name) raises nothing whether
\* or not the table and the index exist, leaves neither, and called when
\* both are already absent (as right after a first delete_collection(name))
\* it leaves the store as it was.
C10_IdempotentDelete ==
    LET name == last.args.name
    IN  last.op = "delete_collection"
        => /\ last.err = "none"
           /\ name \notin table_names
           /\ index[name] = "NO_INDEX"
           /\ ( name \notin last.pre.table_names /\ last.pre.index[name] = "NO_INDEX" )
              => ( DB = last.pre /\ collection_name = last.pre_collection )

\* C10 happens: delete_collection ran on a collection whose table and index
\* were both absent while another collection held records.
C10_Witness ==
    /\ last.op = "delete_collection"
    /\ last.args.name \notin last.pre.table_names
    /\ last.pre.index[last.args.name] = "NO_INDEX"
    /\ \E t \in table_names : rows[t] # <<>>

\* a call of set_collection or of create_collection
IsSetup == last.op \in {"set_collection", "create_collection"}

\* C11: Idempotent ensureIndex.  When the index of a collection exists,
\* setting the collection up again (set_collection or create_collection
\* without replace) raises nothing, does not execute CREATE INDEX, and
\* leaves every index, table and row as it was.
C11_IdempotentEnsureIndex ==
    ( /\ IsSetup
      /\ ~last.args.replace
      /\ last.pre.index[last.args.name] = "READY" )
    => /\ last.err = "none"
       /\ ~last.index_built
       /\ index = last.pre.index
       /\ DB = last.pre

\* C11 happens: _setup_table ran (the collection was not the active one) on
\* a collection that had its index and held records.
C11_Witness ==
    /\ IsSetup
    /\ ~last.args.replace
    /\ last.args.name # last.pre_collection
    /\ last.pre.index[last.args.name] = "READY"
    /\ last.pre.rows[last.args.name] # <<>>

C13_ReplaceRecreates ==
    ( /\ IsSetup
      /\ last.args.replace
      /\ last.args.name \in last.pre.table_names )
    => /\ last.err = "none"
       /\ last.args.name \in table_names
       /\ rows[last.args.name] = <<>>
       /\ index[last.args.name] = "READY"
       /\ last.index_built
       /\ \A c \in Names \ {last.args.name} :
             /\ c \in table_names <=> c \in last.pre.table_names
             /\ rows[c] = last.pre.rows[c]
             /\ index[c] = last.pre.index[c]

\* C13 happens: replace = True named a collection that held records.
C13_Witness ==
    /\ IsSetup
    /\ last.args.replace
    /\ last.args.name \in last.pre.table_names
    /\ last.pre.rows[last.args.name] # <<>>
    /\ rows[last.args.name] = <<>>

\* C14: After set_collection(name, replace) returns, collection `name`
\* exists and is the active one, and it stays the active one, the target of
\* add_documents, get_all_documents, get_documents_by_ids and
\* similar_texts_with_scores, until the next set_collection: no other call
\* changes the active collection.
C14_ActiveUntilNextSet ==
    /\ last.op = "set_collection"
       => /\ last.err = "none"
          /\ last.args.name \in table_names
          /\ collection_name = last.args.name
    /\ last.op \notin {"set_collection", "__init__"}
       => collection_name = last.pre_collection

\* C15: create_collection does not switch the active collection: after
\* create_collection(B, replace) while A is active, A is still active.
C15_CreateKeepsActive ==
    last.op = "create_collection" => collection_name = last.pre_collection

Range(f) == { f[n] : n \in DOMAIN f }

\* C16: list_collections(empty = False) returns exactly the names of the
\* tables that hold at least one row, list_collections(empty = True) the
\* names of all tables, each name once; neither changes the database or
\* the active collection.
C16_ListCollections ==
    last.op = "list_collections"
    => /\ last.err = "none"
       /\ Range(last.ret) =
            IF last.args.empty THEN table_names
            ELSE { t \in table_names : rows[t] # <<>> }
       /\ Distinct(last.ret)
       /\ DB = last.pre
       /\ collection_name = last.pre_collection

\* C16 happens: with an empty and a non-empty collection in the store,
\* list_collections(empty = False) returned one name.
C16_Witness ==
    /\ last.op = "list_collections"
    /\ ~last.args.empty
    /\ Len(last.ret) = 1
    /\ Cardinality(table_names) = 2

\* C17: clear_empty_collections deletes every collection without rows and
\* no collection with a row, leaves the rows of the latter unchanged, and
\* returns the number of collections it deleted.
C17_ClearEmpty ==
    last.op = "clear_empty_collections"
    => /\ last.err = "none"
       /\ table_names = { t \in last.pre.table_names : last.pre.rows[t] # <<>> }
       /\ \A t \in table_names : rows[t] = last.pre.rows[t]
       /\ last.ret = Cardinality(last.pre.table_names \ table_names)

\* ids that are the text of a UUID, and those in canonical form
UuidShaped(id) == id[1] \in {"uuid", "UUID", "uuid5"}
CanonicalForm(id) == id[1] \in {"uuid", "uuid5"}
SameUuid(id1, id2) ==
    \/ id1 = id2
    \/ {id1[1], id2[1]} = {"uuid", "UUID"} /\ id1[2] = id2[2]
IsIdCall(c) == c.op = "_id_to_uuid"

C19_UuidUnchanged ==
    IsIdCall(last)
    => /\ last.err = "none"
       /\ UuidShaped(last.args.id) => last.ret = last.args.id
       /\ ( IsIdCall(last.before) /\ last.args.id = last.before.ret )
          => last.ret = last.before.ret

\* C19, amended: _id_to_uuid returns the canonical text of a UUID-shaped
\* candidate id whatever the metadata: the same UUID, in canonical form,
\* hence the candidate itself when that is in canonical form.  It is
\* idempotent, _id_to_uuid(_id_to_uuid(c, m), m2) = _id_to_uuid(c, m), and
\* raises nothing.
C19_UuidCanonical ==
    IsIdCall(last)
    => /\ last.err = "none"
       /\ UuidShaped(last.args.id)
          => /\ SameUuid(last.ret, last.args.id)
             /\ CanonicalForm(last.ret)
       /\ ( IsIdCall(last.before) /\ last.args.id = last.before.ret )
          => last.ret = last.before.ret

\* C19 happens: _id_to_uuid was applied to the id it had returned for a
\* UUID in another spelling, with different metadata.
C19_Witness ==
    /\ IsIdCall(last) /\ IsIdCall(last.before)
    /\ last.before.args.id = <<"UUID", "u1">>
    /\ last.args.id = last.before.ret
    /\ last.args.obj.tag # last.before.args.obj.tag

\* C20: Malformed filter rejection.  similar_texts_with_scores with a
\* `where` string that is not JSON raises ValueError and returns nothing,
\* and the database and the active collection are as before; ValueError is
\* raised in no other case, so the failure cannot be taken for a call that
\* succeeded with zero results.
C20_MalformedFilterRejected ==
    IsSimilarCall
    => /\ ( last.args.where # None /\ ~WellFormed(last.args.where) )
          => /\ last.err = "ValueError"
             /\ last.ret = <<>>
             /\ DB = last.pre
             /\ collection_name = last.pre_collection
       /\ ( last.args.where = None \/ WellFormed(last.args.where) )
          => last.err # "ValueError"

\* C20 happens: a query with the filter "{not json" was made on a
\* collection that holds records.
C20_Witness ==
    /\ IsSimilarCall
    /\ last.args.where = "{not json"
    /\ last.err = "ValueError"
    /\ last.pre_collection \in table_names
    /\ rows[last.pre_collection] # <<>>

\* C21: A malformed filter is never silently ignored by get_all_documents:
\* called with a `where` string that is not JSON it fails, so that the
\* outcome is neither that of no filter (all documents) nor that of a
\* well-formed filter that matches nothing (no error, empty result).
C21_GetAllRejectsMalformed ==
    ( /\ last.op = "get_all_documents"
      /\ ~WellFormed(last.args.where) )
    => last.err \notin {"none", "ProgrammingError"}

\* C25: Id uniqueness.  In every reachable state, whatever calls were made
\* and whether they failed or not, no table holds two rows with the same
\* id.
C25_IdUnique ==
    \A c \in Names : \A m, n \in DOMAIN rows[c] :
        m # n => rows[c][m].id # rows[c][n].id

\* C25 happens: an insert was rejected for a repeated id in a collection
\* that holds two records.
C25_Witness ==
    /\ last.op = "add_documents"
    /\ last.err = "IntegrityError"
    /\ Len(rows[collection_name]) = 2

IsPrefix(a, b) == Len(a) <= Len(b) /\ SubSeq(b, 1, Len(a)) = a

\* the calls that may remove records
Removes ==
    \/ last.op \in {"delete_collection", "clear_all_collections",
                    "clear_empty_collections"}
    \/ IsSetup /\ last.args.replace

\* C28: Write-path state machine.  A successful add_documents of a
\* non-empty batch leaves the active collection populated, only
\* add_documents adds records and only to the active collection, and the
\* records of a collection are kept (as a prefix of its rows) by every call
\* other than delete_collection, a set_collection / create_collection with
\* replace, clear_all_collections and clear_empty_collections.
C28_WritePath ==
    /\ ( /\ last.op = "add_documents"
         /\ last.err = "none"
         /\ last.args.documents # <<>> )
       => Len(rows[collection_name]) =
             Len(last.pre.rows[collection_name]) + Len(last.args.documents)
    /\ \A c \in Names :
         /\ Len(rows[c]) > Len(last.pre.rows[c])
            => last.op = "add_documents" /\ c = last.pre_collection
         /\ ~IsPrefix(last.pre.rows[c], rows[c]) => Removes

\* C28 happens: the first successful add_documents on an empty collection,
\* while another collection holds records.
C28_Witness ==
    /\ last.op = "add_documents"
    /\ last.err = "none"
    /\ last.pre.rows[collection_name] = <<>>
    /\ rows[collection_name] # <<>>
    /\ \E c \in Names \ {collection_name} : rows[c] # <<>>

\* C30: No query against an un-ensured index.  Whenever
\* similar_texts_with_scores is answered, the table of the active
\* collection has its index: every path that creates, recreates or
\* activates a collection has run the index check and build.
C30_QueriedCollectionHasIndex ==
    ( IsSimilarCall /\ last.err = "none" )
    => /\ last.pre_collection \in table_names
       /\ index[last.pre_collection] # "NO_INDEX"

\* C30 happens: a similarity query returned results.
C30_Witness ==
    /\ IsSimilarCall
    /\ last.err = "none"
    /\ last.ret # <<>>

EmptyString == <<"str", "">>

\* C24: DocMetaData never holds an empty string in source, source_content,
\* id, title or published_date: the constructor given an empty value for
\* any of them fails validation, a constructed object has none of them
\* empty, and the record the store builds from it has a non-empty id.
C24_NeverEmpty ==
    /\ last.op = "DocMetaData"
       => /\ ( \E f \in ValidatedFields : last.args[f] = EmptyString )
             => last.err = "ValidationError"
          /\ last.err = "none"
             => \A f \in ValidatedFields : last.ret[f] # EmptyString
    /\ last.op = "new_record"
       => /\ last.ret.id # EmptyString
          /\ last.ret.cmetadata.id # EmptyString

\* C24 happens: the constructor was given an empty title and a non-empty
\* id and raised.
C24_Witness ==
    /\ last.op = "DocMetaData"
    /\ last.args["title"] = EmptyString
    /\ last.args["id"] = <<"str", "raw">>
    /\ last.err = "ValidationError"

\* C22: Batch atomicity at the call boundary.  When add_documents fails,
\* because the embedding function raises on a document of the batch or
\* because the INSERT is rejected, the exception reaches the caller and the
\* rows of every collection are as before the call.
C22_BatchAtomic ==
    last.op = "add_documents"
    => /\ ( \E n \in DOMAIN last.args.documents :
                last.args.documents[n].content = "bad" )
          => last.err # "none"
       /\ last.err # "none" => DB = last.pre

\* C22 happens: a batch of two was rejected for its second document, the
\* id of the first being new to the collection.
C22_Witness ==
    /\ last.op = "add_documents"
    /\ last.err = "IntegrityError"
    /\ Len(last.args.documents) = 2
    /\ last.pre_collection \in table_names
    /\ last.args.documents[1].metadata.id = <<"str", "raw">>
    /\ rows[collection_name] # <<>>
    /\ \A n \in DOMAIN rows[collection_name] :
          rows[collection_name][n].id = <<"uuid", "u1">>

\* C22 also happens with a batch whose second document the embedding
\* function fails on.
C22_EmbeddingFails ==
    /\ last.op = "add_documents"
    /\ last.err = "EmbeddingError"
    /\ Len(last.args.documents) = 2
    /\ last.args.documents[1].content # "bad"
    /\ last.pre_collection \in table_names

\* the derived id of the document of a step-wise add_documents call
AddedId(call) == new_record(call.args.documents[1]).id
AddedContent(call) == call.args.documents[1].content
RowsWithId(id) ==
    { n \in DOMAIN rows[collection_name] : rows[collection_name][n].id = id }

\* two add_documents calls that ran concurrently on an existing collection
\* have both returned
ConcurrentAdds ==
    /\ \A t \in Threads :
          /\ threads[t].op = "add_documents"
          /\ Idle(t)
          /\ threads[t].concurrent
    /\ collection_name \in table_names

\* C23: Concurrent writes are last-writer-wins.  When two threads have run
\* add_documents concurrently with documents of the same derived id, both
\* calls have returned without error and exactly one record with that id
\* is stored, with the content of one of the two; with different ids both
\* documents are stored.
C23_LastWriterWins ==
    LET a == threads["t1"]
        b == threads["t2"]
    IN  ConcurrentAdds
        => /\ a.err = "none" /\ b.err = "none"
           /\ \A c \in {a, b} :
                 /\ Cardinality(RowsWithId(AddedId(c))) = 1
                 /\ \A n \in RowsWithId(AddedId(c)) :
                       \E w \in {a, b} :
                           /\ AddedId(w) = AddedId(c)
                           /\ rows[collection_name][n].document = AddedContent(w)

\* the thread whose call makes the step
Stepping(t) == threads[t].pc # threads'[t].pc

\* the moves of the index of collection c and the calls that make them
IndexMoves(c) ==
    index'[c] # index[c]
    => \E t \in Threads :
          /\ Stepping(t)
          /\ \/ /\ index[c] = "NO_INDEX" /\ index'[c] = "BUILDING"
                /\ threads[t].op = "set_collection"
             \/ /\ index[c] = "BUILDING" /\ index'[c] = "READY"
                /\ threads[t].op = "set_collection"
             \/ /\ index[c] = "READY" /\ index'[c] = "NO_INDEX"
                /\ \/ threads[t].op = "delete_collection"
                   \/ /\ threads[t].op = "set_collection"
                      /\ threads[t].args.replace

\* C26: Index lifecycle.  The index of a collection moves only from
\* NO_INDEX to BUILDING and from BUILDING to READY, in a collection setup,
\* and from READY to NO_INDEX, in delete_collection or a setup with
\* replace; add_documents and the reads never change it; and an index that
\* is BUILDING eventually is READY.
C26_IndexLifecycle ==
    /\ [][\A c \in Names : IndexMoves(c)]_vars
    /\ \A c \in Names : (index[c] = "BUILDING") ~> (index[c] = "READY")

\* C26 happens: the index is BUILDING while the other thread is in an
\* add_documents call.
C26_Witness ==
    /\ index[collection_name] = "BUILDING"
    /\ \E t \in Threads : threads[t].op = "add_documents" /\ ~Idle(t)

\* C27: Index-table ordering.  In every state, those between the
\* statements of delete_collection and of the collection setup included, a
\* collection has an index only if it has a table; the table is dropped
\* only when the index is gone, and the index is created only when the
\* table exists.
C27_IndexOnlyWithTable ==
    /\ [](\A c \in Names : index[c] # "NO_INDEX" => c \in table_names)
    /\ [][\A c \in Names :
            /\ ( c \in table_names /\ c \notin table_names' )
               => index[c] = "NO_INDEX"
            /\ ( index[c] = "NO_INDEX" /\ index'[c] # "NO_INDEX" )
               => c \in table_names]_vars

\* C27 happens: delete_collection has dropped the index and not yet the
\* table, which holds records.
C27_Witness ==
    \E t \in Threads :
        /\ threads[t].op = "delete_collection"
        /\ threads[t].pc = "drop_table"
        /\ index[collection_name] = "NO_INDEX"
        /\ rows[collection_name] # <<>>

\* C29: Non-blocking index build.  While the index of the collection is
\* BUILDING, another thread can start add_documents and each of the reads,
\* and the INSERT and the commit of an add_documents it is in can be
\* executed: none of them waits for the build.
C29_NonBlockingBuild ==
    index[collection_name] = "BUILDING"
    => \A t \in Threads :
          /\ Idle(t) => ENABLED StartAddDocuments(t) /\ ENABLED Read(t)
          /\ threads[t].pc = "insert" => ENABLED Insert(t)
          /\ threads[t].pc = "commit" => ENABLED Commit(t)

\* C29 happens: the index is BUILDING and the other thread has executed
\* its INSERT, which it has yet to commit.
C29_Witness ==
    /\ index[collection_name] = "BUILDING"
    /\ \E t \in Threads : threads[t].pc = "commit"

\* C31: Active collection validity.  After every create_collection,
\* set_collection, delete_collection, clear_all_collections and
\* clear_empty_collections call the active collection has its table, so
\* that the next add_documents or read does not act on a dropped table.
C31_ActiveCollectionExists ==
    /\ ( IsSetup \/ Removes ) => collection_name \in table_names
    /\ last.op \in {"add_documents", "get_all_documents",
                    "get_documents_by_ids", "similar_texts_with_scores"}
       => last.err # "ProgrammingError"

\* C34: Consistent treatment of the empty filter.  The empty string, which
\* get_all_documents takes as no filter, is taken as no filter by
\* similar_texts_with_scores too: the call is answered like a call without
\* filter and does not raise.
C34_EmptyFilterIsNoFilter ==
    /\ ( last.op = "get_all_documents" /\ last.args.where = ""
         /\ last.pre_collection \in table_names )
       => /\ last.err = "none"
          /\ Len(last.ret) = Len(rows[last.pre_collection])
    /\ ( IsSimilarCall /\ last.args.where = ""
         /\ last.pre_collection \in table_names )
       => /\ last.err = "none"
          /\ Len(last.ret) = Min(last.args.k, Len(rows[last.pre_collection]))

\* The position of the last occurrence of id in ids
LastOccurrence(ids, id) ==
    CHOOSE n \in DOMAIN ids :
        ids[n] = id /\ \A m \in n + 1 .. Len(ids) : ids[m] # id

\* C32: Duplicate ids in a lookup.  When an id occurs more than once in the
\* input of get_documents_by_ids, its record is returned exactly once, the
\* result holds no record twice, and the records come in the order of the
\* last occurrences of their ids in the input.
C32_DuplicateIds ==
    ( /\ last.op = "get_documents_by_ids"
      /\ last.err = "none"
      /\ ~Distinct(last.args.ids) )
    => /\ \A i, j \in DOMAIN last.ret :
             i # j => last.ret[i].metadata.id # last.ret[j].metadata.id
       /\ \A n \in DOMAIN rows[collection_name] :
             rows[collection_name][n].id \in Range(last.args.ids)
             => Cardinality({ i \in DOMAIN last.ret :
                    last.ret[i] = parse_record(rows[collection_name][n]) }) = 1
       /\ \A i, j \in DOMAIN last.ret :
             i < j => LastOccurrence(last.args.ids, last.ret[i].metadata.id)
                        < LastOccurrence(last.args.ids, last.ret[j].metadata.id)

\* C32 happens: an id occurs before and after another id, both are stored,
\* and the record of the repeated id is returned once, after the other one.
C32_Witness ==
    /\ last.op = "get_documents_by_ids"
    /\ last.err = "none"
    /\ Len(last.args.ids) = 3
    /\ last.args.ids[1] = last.args.ids[3]
    /\ last.args.ids[1] # last.args.ids[2]
    /\ Len(last.ret) = 2
    /\ last.ret[1].metadata.id = last.args.ids[2]
    /\ last.ret[2].metadata.id = last.args.ids[1]

\* both handles have run a setup, the two setups overlapped, and both have
\* returned or raised
ConcurrentSetups ==
    \A t \in Threads :
        /\ Idle(t)
        /\ threads[t].op = "__init__"
        /\ threads[t].concurrent

\* C33: Concurrent collection setup.  When two store handles run the setup
\* of the same collection concurrently, neither setup fails, and afterwards
\* the collection has its table and its index, each once.
C33_ConcurrentSetup ==
    ConcurrentSetups
    => /\ \A t \in Threads : threads[t].err = "none"
       /\ collection_name \in table_names
       /\ index[collection_name] = "READY"

====
